---- MODULE Spec2Model ----
(***************************************************************************)
(* Server lifecycle, session registry and document synchronisation of the  *)
(* LSP plugin (src/plugins/lsp/lsp-server.c, lsp-sync.c).                  *)
(*                                                                         *)
(* Session records (LspServer) live at heap addresses; the registry        *)
(* (lsp_servers), the in-shutdown array (servers_in_shutdown), the cached  *)
(* alias (referenced), the process watchers and the pending RPC callbacks  *)
(* hold addresses.  A released record keeps its last contents; access to   *)
(* it is undefined behaviour and either crashes the editor or proceeds on  *)
(* the stale contents; the allocator may hand a released address out       *)
(* again.                                                                  *)
(***************************************************************************)
EXTENDS Integers, FiniteSets, Bags, TLC

\* ------------------------------------------------------------- bounds
\* heap blocks and subprocesses of one run; the subprocesses of the runs in
\* which every initialize fails
MaxAddr == 8
MaxProcs == 2
CeilingProcs == 6
\* version numbers a run hands out per document
MaxVersion == 3
\* in how many capabilities an initialize result differs from Typical
MaxDeviations == 1
\* requests one RPC client sends
MaxRequests == 3

\* ------------------------------------------------- program constants
\* is_dead(): server->restarts > 5
RestartCeiling == 5

\* ------------------------------------------------------ the universe
Addr == 1..MaxAddr
Pid == 1..CeilingProcs
NULL == 0

\* filetypes known to the editor (filetypes_index); "?" names no filetype
FT == {"A", "B"}
filetypes_lookup_by_name(name) == IF name \in FT THEN name ELSE "none"

\* editor documents: file type and whether the document has a real path
Docs == {"a1", "b1"}
DocFt(doc) == IF doc = "a1" THEN "A" ELSE "B"
DocRealPath(doc) == TRUE

\* what the editor passes to did_change: the edited range (start and end as
\* <<line, character>>) and the inserted text; and what the editor widget
\* holds (sci_get_contents)
Ranges == {<<<<0, 0>>, <<0, 0>>>>, <<<<2, 0>>, <<2, 5>>>>}
Texts == {"", "abc"}
Contents == {"abc", "xabcx"}
NoRange == <<>>

\* the requests of lsp-goto.c and whether their result goes to the message
\* window (perform_goto's show_in_msgwin)
Methods ==
    {"textDocument/definition", "textDocument/declaration",
     "textDocument/typeDefinition", "textDocument/implementation",
     "textDocument/references"}
ShowInMsgwin(method) ==
    method \in {"textDocument/implementation", "textDocument/references"}

\* what goto_cb can tell apart in a result: neither an array nor a
\* dictionary, an array of no, one or two locations, a dictionary that is a
\* location, a dictionary lsp_utils_parse_location returns NULL for
Values == {"null", "array0", "array1", "array2", "location", "malformed"}
\* the file a location names: a document of the editor, or a file
\* document_open_file cannot open
Targets == Docs \cup {"missing"}

\* the features a session's configuration switches on and off that the
\* initialize response is applied to: config.<feature>_enable
Features ==
    {"autocomplete", "signature", "hover", "goto", "document_symbols",
     "highlighting", "semantic_tokens"}
AllOn == [f \in Features |-> TRUE]
AllOff == [f \in Features |-> FALSE]
SomeOn == [f \in Features |-> f \in {"autocomplete", "hover",
                                      "document_symbols", "semantic_tokens"}]
OthersOn == [f \in Features |-> ~SomeOn[f]]

\* Configurations read from the key files (load_config,
\* load_filetype_only_config): cmd non-empty?, the "use" reference language,
\* lsp_use_without_project, lsp_use_outside_project_dir, the enable flags.
Plain == [cmd |-> TRUE, ref_lang |-> "", use_without_project |-> TRUE,
          use_outside_project_dir |-> TRUE, enable |-> AllOn]
Strict == [cmd |-> TRUE, ref_lang |-> "", use_without_project |-> FALSE,
           use_outside_project_dir |-> FALSE, enable |-> AllOn]
\* Every configuration has one language that owns a server command: B, or A
\* when its "use" names no known language.
Unused == [Plain EXCEPT !.cmd = FALSE]
\* only B has a server; A uses B's server; A names a language that does
\* not exist
CfgOnlyB == [A |-> Unused, B |-> Strict]
CfgAlias == [A |-> [Unused EXCEPT !.ref_lang = "B"], B |-> Plain]
CfgUnknownRef == [A |-> [Plain EXCEPT !.ref_lang = "?"], B |-> Unused]
Configs == {CfgOnlyB, CfgAlias, CfgUnknownRef}
\* B's server with each setting of the enable flags
CfgFlags == {[CfgOnlyB EXCEPT !.B.enable = e] :
                e \in {AllOn, AllOff, SomeOn, OthersOn}}

\* The capabilities member of an initialize result, by what the parsers of
\* initialize_cb can tell apart.  Trigger characters of completionProvider
\* and signatureHelpProvider: no such member, a list whose strings are
\* empty, a list with characters.  The boolean providers: absent, false,
\* true, or an options object.  textDocumentSync: absent, a number, or an
\* object with or without a change member.  semanticTokensProvider: absent,
\* full given as a boolean, full.delta false or true.
TriggerCaps == {"absent", "empty", "chars"}
BoolCaps == {"absent", "false", "true", "object"}
SyncKinds == 0..2
SyncCaps ==
    {[form |-> "absent", val |-> 0], [form |-> "object", val |-> 0]}
        \cup [form : {"number", "change"}, val : SyncKinds]
SemTokCaps == {"absent", "full", "delta_false", "delta_true"}
CapsOf ==
    [completionProvider |-> TriggerCaps, signatureHelpProvider |-> TriggerCaps,
     hoverProvider |-> BoolCaps, definitionProvider |-> BoolCaps,
     documentSymbolProvider |-> BoolCaps,
     documentHighlightProvider |-> BoolCaps,
     workspaceSymbolProvider |-> BoolCaps, textDocumentSync |-> SyncCaps,
     semanticTokensProvider |-> SemTokCaps]
\* a server that has everything and wants full-document sync
Typical ==
    [completionProvider |-> "chars", signatureHelpProvider |-> "chars",
     hoverProvider |-> "true", definitionProvider |-> "true",
     documentSymbolProvider |-> "true", documentHighlightProvider |-> "true",
     workspaceSymbolProvider |-> "true",
     textDocumentSync |-> [form |-> "number", val |-> 1],
     semanticTokensProvider |-> "delta_true"]
Incremental == [Typical EXCEPT !.textDocumentSync.val = 2]
\* the results that differ from Typical in at most n capabilities
RECURSIVE Deviating(_)
Deviating(n) ==
    IF n = 0 THEN {Typical}
    ELSE UNION {{[r EXCEPT ![k] = v] : v \in CapsOf[k]} :
                   r \in Deviating(n - 1), k \in DOMAIN CapsOf}
Results == Deviating(MaxDeviations)

\* The runs explored, by what the environment does in them: whether a spawn
\* can fail, initialize can succeed or fail, a subprocess can end, the host
\* stops or re-initialises the registry, the host opens and closes
\* documents ("sync"), edits and saves them ("edit"), the allocator reuses
\* released blocks, the server hangs (it stays alive and answers
\* nothing), the user asks for definitions and references ("goto") and
\* closes documents ("close"); and how many
\* subprocesses the run may start, under which configurations, with which
\* initialize results.
Scenarios ==
    { [name |-> "init_fails", cfgs |-> {CfgOnlyB},
       events |-> {"init_err"}, pids |-> CeilingProcs, addrs |-> MaxAddr,
       results |-> "typical"],
      [name |-> "spawn_fails", cfgs |-> Configs,
       events |-> {"spawn_fail", "init_ok", "sync"}, pids |-> 1,
       addrs |-> 2,
       results |-> "typical"],
      [name |-> "crashes", cfgs |-> {CfgOnlyB, CfgAlias},
       events |-> {"init_ok", "init_err", "reply_ok", "exit"},
       pids |-> MaxProcs, addrs |-> MaxAddr - 2,
       results |-> "typical"],
      [name |-> "reinit", cfgs |-> {CfgOnlyB},
       events |-> {"init_ok", "init_err", "reply_ok", "exit", "reinit",
                   "reuse"},
       pids |-> 1, addrs |-> 3,
       results |-> "typical"],
      [name |-> "mixed", cfgs |-> {CfgOnlyB},
       events |-> {"spawn_fail", "init_err", "exit"}, pids |-> 2,
       addrs |-> 4,
       results |-> "typical"],
      [name |-> "reload", cfgs |-> {CfgOnlyB},
       events |-> {"init_err", "reinit"}, pids |-> 2, addrs |-> 5,
       results |-> "typical"],
      [name |-> "hangs", cfgs |-> {CfgOnlyB},
       events |-> {"hang", "reinit"}, pids |-> 1, addrs |-> 4,
       results |-> "typical"],
      [name |-> "edits", cfgs |-> {CfgOnlyB},
       events |-> {"init_ok", "exit", "sync", "edit"}, pids |-> 2,
       addrs |-> 4,
       results |-> "modes"],
      [name |-> "handshake", cfgs |-> CfgFlags,
       events |-> {"init_ok"}, pids |-> 1, addrs |-> 2,
       results |-> "any"],
      [name |-> "goto", cfgs |-> {CfgAlias},
       events |-> {"init_ok", "goto"}, pids |-> 1, addrs |-> 2,
       results |-> "typical"],
      [name |-> "late", cfgs |-> {CfgOnlyB},
       events |-> {"init_ok", "goto", "close"}, pids |-> 1, addrs |-> 2,
       results |-> "typical"],
      [name |-> "teardown", cfgs |-> {CfgOnlyB},
       events |-> {"init_ok", "goto", "reinit"}, pids |-> 1,
       addrs |-> 2,
       results |-> "typical"],
      [name |-> "double", cfgs |-> {CfgOnlyB},
       events |-> {"init_err", "exit"}, pids |-> MaxProcs + 1, addrs |-> 4,
       results |-> "typical"] }

VARIABLES
    cfg,            \* contents of the configuration files
    heap,           \* Addr -> LspServer record (with allocation state)
    lsp_servers,    \* FT -> Addr; all NULL when the array pointer is NULL
    servers_in_shutdown,  \* bag of Addr (GPtrArray, free func free_server)
    procs,          \* Pid -> subprocess and its g_subprocess_wait_async watch
    pending,        \* bag of RPC completions not yet delivered
    open_docs,      \* lsp-sync.c open_docs
    doc_version_nums,  \* lsp-sync.c doc_version_nums: real path -> number
    wire,           \* per document: the version the latest didOpen/didChange
                    \* written carried (0: none yet) and all versions carried
    dialogs,        \* FT -> number of "giving up" message boxes shown
    documents,      \* the editor's documents (foreach_document)
    last_result,    \* lsp-goto.c last_result: its length, 0 when NULL
    scenario,       \* what the servers and the host do in this run
    crashed,        \* the editor process died on a fault
    last            \* what the most recent handler did and returned

vars == <<cfg, heap, lsp_servers, servers_in_shutdown, procs, pending,
          open_docs, doc_version_nums, wire, dialogs, documents, last_result,
          scenario, crashed, last>>

\* ------------------------------------------------------------ records
\* g_new0(LspServer, 1) in lsp_server_new, then s->filetype = ft->id
NewServer(ft, origin) ==
    [alloc |-> "live", filetype |-> ft, process |-> NULL,
     startup_shutdown |-> FALSE, restarts |-> 0, not_used |-> FALSE,
     referenced |-> NULL,
     initialized |-> FALSE,  \* the initialized notification was written
     next_id |-> 1,          \* rpc_client: the id of its next request
     use_incremental_sync |-> FALSE,
     supports_workspace_symbols |-> FALSE,
     config |-> cfg[ft].enable,   \* load_config: the enable flags
     had |-> {},           \* documents a didOpen was ever written for
     opened |-> {},        \* documents with a didOpen written to this
                           \* session and no didClose written to it since
     origin |-> origin]    \* which code path created the record

NeverUsed ==
    [NewServer("A", "none") EXCEPT !.alloc = "never", !.config = AllOff]

NoProc == [state |-> "none", data |-> NULL, ft |-> "A", destroyed |-> FALSE]
\* a subprocess whose exit watch has completed
Exited == [NoProc EXCEPT !.state = "exited"]

\* A request or notification whose completion callback has not run: kind
\* names the callback, srv is its user_data for the lifecycle callbacks, pid
\* the subprocess of the client it was written to, id the request id (0 for
\* a notification); for goto_cb, uri is the document the request names and
\* doc, show are the GotoData.
NoRequest ==
    [kind |-> "none", srv |-> NULL, pid |-> NULL, id |-> 0, uri |-> "",
     doc |-> "", show |-> FALSE]

\* A textDocument notification: method, document (its URI), version (0 when
\* the message has no version member), contentChanges (a tuple of entries,
\* each with a range or NoRange, and a text), text (the text member of
\* didOpen and didSave).
NoNote ==
    [method |-> "none", doc |-> "", version |-> 0, changes |-> <<>>,
     text |-> ""]

\* What a handler did to the user interface: navigated to a location,
\* cleared and raised the message window, added lines to it, showed the
\* goto panel.
NoUi == [navigated |-> FALSE, cleared |-> FALSE, lines |-> 0, panel |-> FALSE]

\* nothing written for the document yet
NoWire == [latest |-> 0, all |-> {}]

\* What a handler leaves for inspection: op names it; doc its document; ret
\* its return value; srv the record it was called for, stopping whether that
\* record was in servers_in_shutdown, ready whether it was READY, restarts
\* its count before the call;
\* should the documents initialize_cb had to replay; newsrv, attempts,
\* spawned, regwrite, uaf, crash what the handler did; early: it wrote a
\* textDocument notification to a session before that session's initialized
\* notification; misordered: it wrote a didClose for a document the session
\* has no didOpen for, or a didOpen for one it has; note: the textDocument
\* notification it wrote last and sent how many it wrote; first: that was
\* the first didOpen of the document on the session; pos_start, pos_end, text, contents: what did_change was
\* called with and what the editor widget held; result: the initialize
\* result initialize_cb was called with; before: the session's enable flags
\* before the call; requests, rejected: how many requests it wrote and how
\* many of its calls the client rejected; answered: the request the server answered, req: the request
\* whose callback ran, value: the result it ran with; ui: what it showed.
NoCall == [op |-> "none", doc |-> "", ret |-> NULL,
           srv |-> NULL, stopping |-> FALSE, ready |-> FALSE, restarts |-> 0,
           should |-> {}, newsrv |-> NULL, attempts |-> 0, spawned |-> 0,
           regwrite |-> FALSE, uaf |-> FALSE, crash |-> FALSE,
           early |-> FALSE, misordered |-> FALSE, note |-> NoNote,
           first |-> FALSE, pos_start |-> <<>>, pos_end |-> <<>>,
           text |-> "", contents |-> "", result |-> Typical,
           before |-> AllOff, sent |-> 0, requests |-> 0, rejected |-> 0,
           req |-> NoRequest, answered |-> NoRequest,
           value |-> "null", ui |-> NoUi]

\* The state a handler works on.  uaf: a released record was accessed;
\* nullptr: the NULL registry array was dereferenced; blocked: the model ran
\* out of addresses or process identifiers; ret: the handler's return value;
\* newsrv: the record the handler allocated; attempts, spawned, spawn_failed:
\* the calls of start_lsp_server it made and how they ended.
World ==
    [heap |-> heap, reg |-> lsp_servers, shut |-> servers_in_shutdown,
     procs |-> procs, pending |-> pending, open_docs |-> open_docs,
     dialogs |-> dialogs, uaf |-> FALSE, nullptr |-> FALSE,
     blocked |-> FALSE, ret |-> NULL, newsrv |-> NULL, attempts |-> 0,
     spawned |-> 0, spawn_failed |-> FALSE, early |-> FALSE,
     misordered |-> FALSE, doc_version_nums |-> doc_version_nums,
     wire |-> wire, num |-> 0, note |-> NoNote, first |-> FALSE, sent |-> 0,
     requests |-> 0, rejected |-> 0, documents |-> documents,
     last_result |-> last_result, ui |-> NoUi]

Bag1(x) == SetToBag({x})

\* reading or writing *a
Deref(w, a) == IF w.heap[a].alloc = "live" THEN w ELSE [w EXCEPT !.uaf = TRUE]

\* the record is a session in the READY state: it has a process and its
\* handshakes are over
Ready(w, s) ==
    /\ s # NULL
    /\ w.heap[s].alloc = "live"
    /\ w.heap[s].process # NULL
    /\ ~w.heap[s].startup_shutdown

RegistryNull(w) == \A ft \in FT : w.reg[ft] = NULL

\* ---------------------------------------------------------- allocator
\* g_new0 returns a block never handed out before or a released one.
Fresh(w) == {a \in Addr : a <= scenario.addrs /\ w.heap[a].alloc = "never"}
Released(w) == {a \in Addr : w.heap[a].alloc = "freed"}
AllocChoices(w) ==
    (IF Fresh(w) = {} THEN {}
     ELSE {CHOOSE a \in Fresh(w) : \A b \in Fresh(w) : a <= b})
    \cup (IF "reuse" \in scenario.events THEN Released(w) ELSE {})

NextPid(w) ==
    LET free == {p \in Pid : p <= scenario.pids /\ w.procs[p].state = "none"}
    IN IF free = {} THEN NULL ELSE CHOOSE p \in free : \A q \in free : p <= q


\* ------------------------------------------------------------ RPC client
\* the request: the client's next id, a Pending Request recorded under it
client_send(w, srv, req) ==
    [w EXCEPT
       !.heap[srv].next_id = @ + 1,
       !.requests = @ + 1,
       !.pending = @ (+) Bag1([req EXCEPT !.srv = srv,
                                          !.pid = w.heap[srv].process,
                                          !.id = w.heap[srv].next_id])]

\* lsp_client_call_startup_shutdown(srv, method, params, callback, srv):
\* permitted in every state of the session
lsp_client_call_startup_shutdown(w, srv, kind) ==
    client_send(w, srv, [NoRequest EXCEPT !.kind = kind])

\* lsp_client_call_async (the ordinary call): rejected with "server not
\* ready" while the session is in a handshake, nothing written
lsp_client_call(w, srv, req) ==
    IF w.heap[srv].startup_shutdown THEN [w EXCEPT !.rejected = @ + 1]
    ELSE client_send(w, srv, req)

\* ------------------------------------------------------------ lifecycle
is_dead(server) == server.restarts > RestartCeiling

\* start_lsp_server(server); spawn_ok: g_subprocess_launcher_spawnv succeeded.
\* A successful spawn registers process_stopped as the exit watch and sends
\* initialize with startup_shutdown set (perform_initialize).
start_lsp_server(w, s, spawn_ok) ==
    LET w1 == [w EXCEPT !.heap[s].restarts = @ + 1]
        ft == w1.heap[s].filetype
        pid == NextPid(w1)
    IN IF is_dead(w1.heap[s])
       THEN [w1 EXCEPT !.dialogs[ft] = @ + 1, !.attempts = @ + 1]
       ELSE IF ~spawn_ok
       THEN [w1 EXCEPT !.heap[s].process = NULL, !.attempts = @ + 1,
                       !.spawn_failed = TRUE]
       ELSE IF pid = NULL
       THEN [w1 EXCEPT !.blocked = TRUE]
       ELSE [w1 EXCEPT
               !.attempts = @ + 1, !.spawned = @ + 1,
               !.heap[s].process = pid,
               !.procs[pid] = [state |-> "running", data |-> s, ft |-> ft,
                               destroyed |-> FALSE],
               !.heap[s].startup_shutdown = TRUE,
               !.heap[s].next_id = 2,
               !.requests = @ + 1,
               !.pending = @ (+) Bag1([NoRequest EXCEPT
                                         !.kind = "initialize", !.srv = s,
                                         !.pid = pid, !.id = 1])]

\* force_terminate(info): SIGTERM, then g_subprocess_force_exit
force_terminate(w, s) ==
    LET pid == w.heap[s].process
    IN IF pid # NULL /\ w.procs[pid].state = "running"
       THEN [w EXCEPT !.procs[pid].state = "killed"]
       ELSE w

\* stop_process without s->startup_shutdown = TRUE
stop_process_unflagged(w, s) ==
    LET w1 == Deref(w, s)
    IN lsp_client_call_startup_shutdown(
           [w1 EXCEPT !.shut = @ (+) Bag1(s)], s, "shutdown")

\* stop_process(s)
stop_process(w, s) ==
    LET w1 == Deref(w, s)
    IN lsp_client_call_startup_shutdown(
           [w1 EXCEPT !.heap[s].startup_shutdown = TRUE,
                      !.shut = @ (+) Bag1(s)],
           s, "shutdown")

\* free_server(s): releases the process handle and the RPC client, then the
\* record itself
free_server(w, s) ==
    LET w1 == Deref(w, s)
        pid == w1.heap[s].process
        w2 == IF pid # NULL THEN [w1 EXCEPT !.procs[pid].destroyed = TRUE]
              ELSE w1
    IN [w2 EXCEPT !.heap[s].alloc = "freed", !.heap[s].opened = {},
                  !.heap[s].had = {},
                  !.heap[s].origin = "none"]

\* stop_and_free_server(s)
stop_and_free_server(w, s) ==
    LET w1 == Deref(w, s)
    IN IF w1.heap[s].process # NULL THEN stop_process(w1, s)
       ELSE free_server(w1, s)

\* g_ptr_array_remove_fast(servers_in_shutdown, srv): the first matching
\* element is removed and handed to the array's free function, free_server
remove_from_shutdown(w, s) ==
    IF BagIn(s, w.shut)
    THEN free_server([w EXCEPT !.shut = @ (-) Bag1(s)], s)
    ELSE w

\* lsp_server_init(ft) into the block a
lsp_server_init(w, ft, a, origin) ==
    IF a \notin AllocChoices(w) THEN [w EXCEPT !.blocked = TRUE]
    ELSE [w EXCEPT !.heap[a] = NewServer(ft, origin), !.newsrv = a]

\* the tail shared by initialize_cb (l.351-354) and process_stopped
\* (l.506-509): a fresh record inherits restarts, takes the registry slot and
\* is started
replace_and_start(w, ft, restarts, a, spawn_ok, origin) ==
    LET w1 == lsp_server_init(w, ft, a, origin)
        w2 == [w1 EXCEPT !.heap[a].restarts = restarts]
    IN IF w1.blocked THEN w1
       ELSE IF RegistryNull(w2) THEN [w2 EXCEPT !.nullptr = TRUE]
       ELSE start_lsp_server([w2 EXCEPT !.reg[ft] = a], a, spawn_ok)

\* ----------------------------------------------------------- resolution
\* server_get_or_start_for_ft(ft, launch_server); disabled:
\* lsp_utils_is_lsp_disabled_for_project()
server_get_or_start_for_ft(w, ft, launch_server, disabled, spawn_ok) ==
    IF RegistryNull(w) \/ disabled THEN [w EXCEPT !.ret = NULL]
    ELSE
    LET s0 == w.reg[ft]
        w0 == Deref(w, s0)
        s == IF w0.heap[s0].referenced # NULL THEN w0.heap[s0].referenced
             ELSE s0
        w1 == Deref(w0, s)
        h == w1.heap[s]
    IN IF h.startup_shutdown THEN [w1 EXCEPT !.ret = NULL]
       ELSE IF h.process # NULL THEN [w1 EXCEPT !.ret = s]
       ELSE IF h.not_used THEN [w1 EXCEPT !.ret = NULL]
       ELSE IF is_dead(h) THEN [w1 EXCEPT !.ret = NULL]
       ELSE IF ~launch_server THEN [w1 EXCEPT !.ret = NULL]
       ELSE
       LET ref == cfg[h.filetype].ref_lang
           ft2 == filetypes_lookup_by_name(ref)
           s2 == IF ref # "" /\ ft2 # "none" THEN w1.reg[ft2] ELSE NULL
           w2 == IF s2 # NULL
                 THEN Deref([w1 EXCEPT !.heap[s].referenced = s2], s2)
                 ELSE w1
       IN IF s2 # NULL /\ w2.heap[s2].process # NULL
          THEN [w2 EXCEPT !.ret = s2]
          ELSE
          LET t == IF s2 # NULL THEN s2 ELSE s
          IN IF ~cfg[w2.heap[t].filetype].cmd
             THEN [w2 EXCEPT !.heap[t].not_used = TRUE, !.ret = NULL]
             ELSE [start_lsp_server(w2, t, spawn_ok) EXCEPT !.ret = NULL]

\* is_lsp_valid_for_doc(cfg, doc); project: geany_data->app->project is set;
\* inside: the document's path lies inside the project base path
is_lsp_valid_for_doc(c, doc, project, inside) ==
    IF ~c.use_without_project /\ ~project THEN FALSE
    ELSE IF ~DocRealPath(doc) THEN FALSE
    ELSE IF c.use_outside_project_dir \/ ~project THEN TRUE
    ELSE inside

\* server_get_for_doc, l.783-790: w1 is the world after
\* server_get_or_start_for_ft, its ret the session that returned
valid_for_doc(w1, doc, project, inside) ==
    IF w1.ret = NULL THEN w1
    ELSE IF ~is_lsp_valid_for_doc(cfg[w1.heap[w1.ret].filetype], doc,
                                  project, inside)
    THEN [w1 EXCEPT !.ret = NULL]
    ELSE w1

\* server_get_for_doc(doc, launch_server)
server_get_for_doc(w, doc, launch_server, disabled, spawn_ok, project, inside) ==
    valid_for_doc(server_get_or_start_for_ft(w, DocFt(doc), launch_server,
                                             disabled, spawn_ok),
                  doc, project, inside)

\* ------------------------------------------------------- document sync
\* lsp_sync_is_document_open(doc)
lsp_sync_is_document_open(w, doc) == doc \in w.open_docs

\* get_next_doc_version_num without the g_hash_table_insert
get_next_doc_version_num_unstored(w, doc) ==
    IF ~DocRealPath(doc) THEN [w EXCEPT !.num = 0]
    ELSE LET num == w.doc_version_nums[doc] + 1
         IN [w EXCEPT !.num = num]

\* get_next_doc_version_num(doc): the number is left in num
get_next_doc_version_num(w, doc) ==
    IF ~DocRealPath(doc) THEN [w EXCEPT !.num = 0]
    ELSE LET num == w.doc_version_nums[doc] + 1
         IN [w EXCEPT !.doc_version_nums[doc] = num, !.num = num]

\* lsp_rpc_notify(server, method, node): the notification is written to the
\* server's input whatever the state of the session; what the server has
\* been sent is recorded with it
lsp_rpc_notify(w, server, note) ==
    LET w1 == Deref(w, server)
        s == w.heap[server]
        d == note.doc
        versioned == note.method \in {"didOpen", "didChange"}
    IN [w1 EXCEPT
          !.note = note,
          !.sent = @ + 1,
          !.early = @ \/ ~s.initialized,
          !.misordered = @ \/ (note.method = "didOpen" /\ d \in s.opened)
                           \/ (note.method = "didClose" /\ d \notin s.opened),
          !.first = note.method = "didOpen" /\ d \notin s.had,
          !.heap[server].opened =
              IF note.method = "didOpen" THEN @ \cup {d}
              ELSE IF note.method = "didClose" THEN @ \ {d} ELSE @,
          !.heap[server].had = IF note.method = "didOpen" THEN @ \cup {d}
                               ELSE @,
          !.wire[d] = IF versioned
                      THEN [latest |-> note.version,
                            all |-> @.all \cup {note.version}]
                      ELSE @]

\* lsp_sync_text_document_did_open(server, doc); contents: what the editor
\* widget holds
lsp_sync_text_document_did_open(w, server, doc, contents) ==
    IF lsp_sync_is_document_open(w, doc) THEN w
    ELSE LET w1 == [w EXCEPT !.open_docs = @ \cup {doc}]
             w2 == get_next_doc_version_num(w1, doc)
         IN lsp_rpc_notify(w2, server,
                [NoNote EXCEPT !.method = "didOpen", !.doc = doc,
                               !.version = w2.num, !.text = contents])

\* lsp_sync_text_document_did_close(server, doc)
lsp_sync_text_document_did_close(w, server, doc) ==
    IF ~lsp_sync_is_document_open(w, doc) THEN w
    ELSE lsp_rpc_notify([w EXCEPT !.open_docs = @ \ {doc}], server,
                        [NoNote EXCEPT !.method = "didClose", !.doc = doc])

\* did_save that, like did_close, does nothing for a document that is not
\* recorded as open
lsp_sync_text_document_did_save_if_open(w, server, doc, contents) ==
    IF ~lsp_sync_is_document_open(w, doc) THEN w
    ELSE lsp_rpc_notify(w, server,
                        [NoNote EXCEPT !.method = "didSave", !.doc = doc,
                                       !.text = contents])

\* lsp_sync_text_document_did_save(server, doc)
lsp_sync_text_document_did_save(w, server, doc, contents) ==
    lsp_rpc_notify(w, server,
                   [NoNote EXCEPT !.method = "didSave", !.doc = doc,
                                  !.text = contents])

\* did_change that sends the whole text whatever the mode
lsp_sync_text_document_did_change_whole(w, server, doc, pos_start, pos_end, text, contents) ==
    LET w1 == get_next_doc_version_num(w, doc)
        w2 == Deref(w1, server)
        entry == [range |-> NoRange, text |-> contents]
    IN lsp_rpc_notify(w2, server,
                      [NoNote EXCEPT !.method = "didChange", !.doc = doc,
                                     !.version = w1.num,
                                     !.changes = <<entry>>])

\* lsp_sync_text_document_did_change(server, doc, pos_start, pos_end, text)
lsp_sync_text_document_did_change(w, server, doc, pos_start, pos_end, text, contents) ==
    LET w1 == get_next_doc_version_num(w, doc)
        w2 == Deref(w1, server)
        entry == IF w2.heap[server].use_incremental_sync
                 THEN [range |-> <<pos_start, pos_end>>, text |-> text]
                 ELSE [range |-> NoRange, text |-> contents]
    IN lsp_rpc_notify(w2, server,
                      [NoNote EXCEPT !.method = "didChange", !.doc = doc,
                                     !.version = w1.num,
                                     !.changes = <<entry>>])

\* ----------------------------------------------------------------- goto
\* perform_goto with one static GotoData shared by all requests
perform_goto_static_data(w, server, doc, show_in_msgwin) ==
    LET shared(e) == IF e.kind = "goto"
                     THEN [e EXCEPT !.doc = doc, !.show = show_in_msgwin]
                     ELSE e
        w1 == [w EXCEPT !.pending =
                 BagOfAll(shared, w.pending)]
    IN lsp_client_call(Deref(w1, server), server,
                       [NoRequest EXCEPT !.kind = "goto", !.uri = doc,
                                         !.doc = doc,
                                         !.show = show_in_msgwin])

\* perform_goto(server, doc, pos, request, show_in_msgwin): the request
\* names the document, the GotoData go with the callback
perform_goto(w, server, doc, show_in_msgwin) ==
    lsp_client_call(Deref(w, server), server,
                    [NoRequest EXCEPT !.kind = "goto", !.uri = doc,
                                      !.doc = doc, !.show = show_in_msgwin])

\* goto_location(old_doc, loc)
goto_location(w, target) ==
    IF target \in Docs
    THEN [w EXCEPT !.documents = @ \cup {target}, !.ui.navigated = TRUE]
    ELSE w

\* the locations of a result: show_in_msgwin for each, goto_location for a
\* single one, the goto panel for several
show_locations(w, data, n, target) ==
    IF n = 0 THEN w
    ELSE IF data.show THEN [w EXCEPT !.ui.lines = n]
    ELSE IF n = 1 THEN goto_location(w, target)
    ELSE [w EXCEPT !.last_result = n, !.ui.panel = TRUE]

\* goto_cb without the doc_exists test
goto_cb_unchecked(w, data, ok, value, target) ==
    IF ~ok THEN w
    ELSE LET w1 == IF data.show THEN [w EXCEPT !.ui.cleared = TRUE] ELSE w
         IN CASE value = "array1" -> show_locations(w1, data, 1, target)
              [] value = "array2" -> show_locations(w1, data, 2, target)
              [] value = "location" ->
                    IF data.show THEN [w1 EXCEPT !.ui.lines = 1]
                    ELSE goto_location(w1, target)
              [] OTHER -> w1

\* goto_cb(object, result, user_data); data: the GotoData, ok:
\* lsp_client_call_finish succeeded
goto_cb(w, data, ok, value, target) ==
    IF ~ok THEN w
    ELSE IF data.doc \notin w.documents THEN w
    ELSE LET w1 == IF data.show THEN [w EXCEPT !.ui.cleared = TRUE] ELSE w
         IN CASE value = "array1" -> show_locations(w1, data, 1, target)
              [] value = "array2" -> show_locations(w1, data, 2, target)
              [] value = "location" ->
                    IF data.show THEN [w1 EXCEPT !.ui.lines = 1]
                    ELSE goto_location(w1, target)
              [] OTHER -> w1

\* lsp_goto_definition, lsp_goto_declaration, lsp_goto_type_definition,
\* lsp_goto_implementations, lsp_goto_references; w1 is the world after
\* lsp_server_get(document_get_current())
lsp_goto(w1, doc, show_in_msgwin) ==
    IF w1.ret = NULL THEN w1
    ELSE perform_goto(w1, w1.ret, doc, show_in_msgwin)

\* ------------------------------------------------------------ callbacks
\* the editor's project state as one input: LSP disabled for the project,
\* no project open, or a project open with the document inside or outside it
Envs == {"disabled", "noproject", "inside", "outside"}
EnvDisabled(env) == env = "disabled"
EnvProject(env) == env \in {"inside", "outside"}
EnvInside(env) == env = "inside"

\* project states that neither the disabled test nor is_lsp_valid_for_doc
\* can tell apart for these documents take one value
EnvRank(env) ==
    CASE env = "disabled" -> 1 [] env = "noproject" -> 2
      [] env = "inside" -> 3 [] env = "outside" -> 4

EnvAlike(e1, e2, docs) ==
    /\ EnvDisabled(e1) = EnvDisabled(e2)
    /\ \A ft \in FT, doc \in docs :
         is_lsp_valid_for_doc(cfg[ft], doc, EnvProject(e1), EnvInside(e1))
         = is_lsp_valid_for_doc(cfg[ft], doc, EnvProject(e2), EnvInside(e2))

EnvInputs(docs) ==
    {e1 \in Envs : \A e2 \in Envs : EnvAlike(e1, e2, docs) => EnvRank(e1) <= EnvRank(e2)}

\* lsp_server_get_if_running(doc) # NULL, as initialize_cb asks
running_for(w, doc, env) ==
    server_get_for_doc(w, doc, FALSE, EnvDisabled(env), TRUE,
                       EnvProject(env), EnvInside(env))

\* JSONRPC_MESSAGE_GET_BOOLEAN(&val) on a member: val is written only when
\* the member is a boolean
GetBoolean(member, val) ==
    IF member \in {"true", "false"} THEN member = "true" ELSE val

\* get_autocomplete_trigger_chars / get_signature_trigger_chars: the
\* concatenated trigger characters
get_trigger_chars(member) == IF member = "chars" THEN ".(" ELSE ""

\* supports_semantic_tokens(node)
supports_semantic_tokens(node) ==
    IF node.semanticTokensProvider \in {"delta_false", "delta_true"}
    THEN node.semanticTokensProvider = "delta_true"
    ELSE FALSE

\* use_incremental_sync without the first parse
use_incremental_sync_number_only(node) ==
    LET sync == node.textDocumentSync
        success == sync.form = "number"
    IN success /\ sync.val = 2

\* use_incremental_sync(node): the nested change member first, then the
\* number
use_incremental_sync(node) ==
    LET sync == node.textDocumentSync
        nested == sync.form = "change"
        success == nested \/ sync.form = "number"
    IN success /\ sync.val = 2

\* update_config with *option = val
update_config_assigns(variant, option, key) ==
    LET val == GetBoolean(variant[key], FALSE)
    IN val

\* update_config(variant, option, key): the new value of *option
update_config(variant, option, key) ==
    LET val == GetBoolean(variant[key], FALSE)
    IN IF ~val THEN FALSE ELSE option

\* initialize_cb, l.296-319: the capabilities applied to the session
apply_capabilities(srv, node) ==
    LET c0 == srv.config
        c1 == IF get_trigger_chars(node.completionProvider) = ""
              THEN [c0 EXCEPT !.autocomplete = FALSE] ELSE c0
        c2 == IF get_trigger_chars(node.signatureHelpProvider) = ""
              THEN [c1 EXCEPT !.signature = FALSE] ELSE c1
        c3 == [c2 EXCEPT
                 !.hover = update_config(node, @, "hoverProvider"),
                 !.goto = update_config(node, @, "definitionProvider"),
                 !.document_symbols =
                     update_config(node, @, "documentSymbolProvider"),
                 !.highlighting =
                     update_config(node, @, "documentHighlightProvider")]
        c4 == IF ~supports_semantic_tokens(node)
              THEN [c3 EXCEPT !.semantic_tokens = FALSE] ELSE c3
    IN [srv EXCEPT
          !.config = c4,
          !.supports_workspace_symbols =
              update_config(node, TRUE, "workspaceSymbolProvider"),
          !.use_incremental_sync = use_incremental_sync(node)]

\* initialize_cb without error; node: the result; changed: the documents
\* with doc->changed, current: document_get_current()
initialize_cb_ok(w, s, node, changed, current, env, contents) ==
    LET w0 == Deref(w, s)
        w1 == [w0 EXCEPT !.heap[s] = apply_capabilities(@, node)]
        \* l.324-325: the initialized notification, then the flag
        w2 == [w1 EXCEPT !.heap[s].initialized = TRUE,
                         !.heap[s].startup_shutdown = FALSE]
        replay == {d \in Docs : /\ DocFt(d) = w2.heap[s].filetype
                                /\ (d \in changed \/ d = current)}
        sendto == {d \in replay : running_for(w2, d, env).ret # NULL}
        touched == \E d \in replay : running_for(w2, d, env).uaf
        w3 == [w2 EXCEPT !.uaf = @ \/ touched]
    IN \* one document per file type: the loop body runs at most once
       IF sendto = {} THEN w3
       ELSE lsp_sync_text_document_did_open(w3, s, CHOOSE d \in sendto : TRUE,
                                            contents)

\* initialize_cb with error
initialize_cb_err(w, s, a, spawn_ok) ==
    LET w1 == Deref(w, s)
        restarts == w1.heap[s].restarts
        w2 == stop_process(w1, s)
    IN replace_and_start(w2, w2.heap[s].filetype, restarts, a, spawn_ok,
                         "initialize_cb")

\* shutdown_cb; the exit notification goes to the client the request used
shutdown_cb(w, s, pid, ok) ==
    LET w1 == Deref(w, s)
    IN IF ok
       THEN [w1 EXCEPT !.pending = @ (+) Bag1([NoRequest EXCEPT
                                                 !.kind = "exit", !.srv = s,
                                                 !.pid = pid])]
       ELSE remove_from_shutdown(force_terminate(w1, s), s)

\* exit_cb
exit_cb(w, s, ok) ==
    LET w1 == IF ok THEN w ELSE force_terminate(Deref(w, s), s)
    IN remove_from_shutdown(w1, s)

\* process_stopped(process, res, data)
process_stopped(w, pid, a, spawn_ok) ==
    LET s == w.procs[pid].data
        w1 == Deref([w EXCEPT !.procs[pid] =
                                 [Exited EXCEPT !.ft = w.procs[pid].ft]], s)
    IN IF w1.heap[s].process # pid THEN w1
       ELSE LET restarts == w1.heap[s].restarts
                w2 == free_server(w1, s)
                \* l.506 reads s->filetype after g_free(s)
                w3 == [w2 EXCEPT !.uaf = TRUE]
            IN replace_and_start(w3, w3.heap[s].filetype, restarts, a,
                                 spawn_ok,
                                 IF Ready(w, s) THEN "ready_exit"
                                 ELSE "process_stopped")

\* lsp_server_stop_all: g_ptr_array_free(lsp_servers, TRUE) hands every
\* element to stop_and_free_server, then lsp_servers = NULL
lsp_server_stop_all(w) ==
    IF RegistryNull(w) THEN w
    ELSE LET w1 == stop_and_free_server(w, w.reg["A"])
             w2 == stop_and_free_server(w1, w1.reg["B"])
         IN [w2 EXCEPT !.reg = [ft \in FT |-> NULL]]

\* lsp_server_init_all
lsp_server_init_all(w, a, b) ==
    LET w1 == lsp_server_stop_all(w)
        w2 == lsp_server_init(w1, "A", a, "init_all")
        w3 == lsp_server_init(w2, "B", b, "init_all")
    IN IF w2.blocked THEN w2
       ELSE [w3 EXCEPT !.reg = [ft \in FT |-> IF ft = "A" THEN a ELSE b]]


\* ------------------------------------------------------------- actions
\* state after the first lsp_server_init_all()
Init ==
    /\ scenario \in Scenarios
    /\ cfg \in scenario.cfgs
    /\ heap = [a \in Addr |-> IF a = 1 THEN NewServer("A", "init_all")
                              ELSE IF a = 2 THEN NewServer("B", "init_all")
                              ELSE NeverUsed]
    /\ lsp_servers = [ft \in FT |-> IF ft = "A" THEN 1 ELSE 2]
    /\ servers_in_shutdown = EmptyBag
    /\ procs = [p \in Pid |-> NoProc]
    /\ pending = EmptyBag
    /\ open_docs = {}
    /\ doc_version_nums = [d \in Docs |-> 0]
    /\ wire = [d \in Docs |-> NoWire]
    /\ dialogs = [ft \in FT |-> 0]
    /\ documents = Docs
    /\ last_result = 0
    /\ crashed = FALSE
    /\ last = NoCall

\* a fault ends the editor process: nothing of its state is left
Crash(l) ==
    /\ heap' = [a \in Addr |-> NeverUsed]
    /\ lsp_servers' = [ft \in FT |-> NULL]
    /\ servers_in_shutdown' = EmptyBag
    /\ procs' = [p \in Pid |-> NoProc]
    /\ pending' = EmptyBag
    /\ open_docs' = {}
    /\ doc_version_nums' = [d \in Docs |-> 0]
    /\ wire' = [d \in Docs |-> NoWire]
    /\ dialogs' = [ft \in FT |-> 0]
    /\ documents' = Docs
    /\ last_result' = 0
    /\ crashed' = TRUE
    /\ last' = [l EXCEPT !.crash = TRUE]
    /\ UNCHANGED <<cfg, scenario>>

\* The handler ran from World to r.  Dereferencing the NULL registry
\* crashes; an access to a released record crashes or goes unnoticed.
Commit(r, l) ==
    /\ ~r.blocked
    /\ \A d \in Docs : r.doc_version_nums[d] <= MaxVersion
    /\ \A a \in Addr : r.heap[a].next_id <= MaxRequests + 1
    /\ \E fault \in BOOLEAN :
         IF r.nullptr \/ (r.uaf /\ fault)
         THEN Crash([l EXCEPT !.uaf = r.uaf])
         ELSE /\ ~fault
              /\ heap' = r.heap
              /\ lsp_servers' = r.reg
              /\ servers_in_shutdown' = r.shut
              /\ procs' = r.procs
              /\ pending' = r.pending
              /\ open_docs' = r.open_docs
              /\ doc_version_nums' = r.doc_version_nums
              /\ wire' = r.wire
              /\ dialogs' = r.dialogs
              /\ documents' = r.documents
              /\ last_result' = r.last_result
              /\ crashed' = FALSE
              /\ last' = [l EXCEPT !.uaf = r.uaf, !.ret = r.ret,
                                   !.early = r.early,
                                   !.note = r.note,
                                   !.sent = r.sent,
                                   !.requests = r.requests,
                                   !.rejected = r.rejected,
                                   !.ui = r.ui,
                                   !.first = r.first,
                                   !.misordered = r.misordered,
                                   !.newsrv = r.newsrv,
                                   !.attempts = r.attempts,
                                   !.spawned = r.spawned,
                                   !.regwrite = (r.reg # lsp_servers)]
              /\ UNCHANGED <<cfg, scenario>>

\* what g_subprocess_launcher_spawnv and the allocator can answer in this run
SpawnInputs == IF "spawn_fail" \in scenario.events THEN BOOLEAN ELSE {TRUE}

\* the initialize results the server can answer in this run
ResultInputs ==
    IF scenario.results = "any" THEN Results
    ELSE IF scenario.results = "modes" THEN {Typical, Incremental}
    ELSE {Typical}

AddrInputs == {a \in Addr : a <= scenario.addrs}

\* inputs that the handler did not use take one value
Canon(r, a, spawn_ok) ==
    /\ r.newsrv # NULL \/ a = 1
    /\ r.spawn_failed \/ spawn_ok

\* lsp_server_get(doc) / lsp_server_get_if_running(doc); in the runs with
\* goto handlers the session is looked up by them
Get(doc, launch_server) ==
    /\ ~crashed
    /\ "goto" \notin scenario.events
    /\ \E env \in EnvInputs({doc}), spawn_ok \in SpawnInputs :
         LET r == server_get_for_doc(World, doc, launch_server,
                                     EnvDisabled(env), spawn_ok,
                                     EnvProject(env), EnvInside(env))
         IN /\ Canon(r, 1, spawn_ok)
            /\ Commit(r, [NoCall EXCEPT
                            !.op = IF launch_server THEN "get"
                                   ELSE "get_if_running",
                            !.doc = doc])

LspServerGet == \E doc \in documents : Get(doc, TRUE)

LspServerGetIfRunning == \E doc \in documents : Get(doc, FALSE)

\* one of the goto handlers of lsp-goto.c, on the current document
LspGoto ==
    /\ ~crashed
    /\ "goto" \in scenario.events
    /\ \E doc \in documents, spawn_ok \in SpawnInputs,
          show_in_msgwin \in {ShowInMsgwin(method) : method \in Methods} :
       \E env \in EnvInputs({doc}) :
         LET r == lsp_goto(server_get_for_doc(World, doc, TRUE,
                                              EnvDisabled(env), spawn_ok,
                                              EnvProject(env),
                                              EnvInside(env)),
                           doc, show_in_msgwin)
         IN /\ Canon(r, 1, spawn_ok)
            /\ Commit(r, [NoCall EXCEPT !.op = "goto", !.doc = doc])

\* an RPC completes successfully only while its process runs and its client
\* exists; a failure (error response, broken transport, cancellation) can be
\* delivered at any time
\* the server answers, or the transport to it fails; a server that hangs
\* does neither
Answers == "hang" \notin scenario.events

CanSucceed(cb) ==
    /\ cb.pid # NULL
    /\ procs[cb.pid].state = "running"
    /\ ~procs[cb.pid].destroyed

Without(cb) == [World EXCEPT !.pending = @ (-) Bag1(cb)]

Called(op, cb) ==
    [NoCall EXCEPT !.op = op, !.srv = cb.srv,
                   !.restarts = heap[cb.srv].restarts,
                   !.ready = Ready(World, cb.srv),
                   !.stopping = BagIn(cb.srv, servers_in_shutdown)]

InitializeOk ==
    /\ ~crashed
    /\ Answers
    /\ "init_ok" \in scenario.events
    /\ \E cb \in BagToSet(pending) :
         /\ cb.kind = "initialize"
         /\ CanSucceed(cb)
         /\ \E node \in ResultInputs, changed \in SUBSET Docs,
               current \in Docs, env \in EnvInputs(Docs),
               contents \in Contents :
              LET r == initialize_cb_ok(Without(cb), cb.srv, node, changed,
                                        current, env, contents)
                  ft == heap[cb.srv].filetype
                  should ==
                      {d \in Docs :
                         /\ DocFt(d) = ft
                         /\ (d \in changed \/ d = current)
                         /\ ~EnvDisabled(env)
                         /\ is_lsp_valid_for_doc(cfg[ft], d, EnvProject(env),
                                                 EnvInside(env))}
              IN /\ \A d \in changed : DocFt(d) = ft
                 /\ r.note # NoNote \/ contents = "abc"
                 /\ Commit(r, [Called("initialize_ok", cb) EXCEPT
                                 !.should = should, !.result = node,
                                 !.before = heap[cb.srv].config])

InitializeErr ==
    /\ ~crashed
    /\ Answers
    /\ "init_err" \in scenario.events
    /\ \E cb \in BagToSet(pending), a \in AddrInputs,
          spawn_ok \in SpawnInputs :
         /\ cb.kind = "initialize"
         /\ LET r == initialize_cb_err(Without(cb), cb.srv, a, spawn_ok)
            IN /\ Canon(r, a, spawn_ok)
               /\ Commit(r, Called("initialize_err", cb))

ShutdownReply ==
    /\ ~crashed
    /\ Answers
    /\ \E cb \in BagToSet(pending), ok \in BOOLEAN :
         /\ cb.kind = "shutdown"
         /\ ok => CanSucceed(cb) /\ "reply_ok" \in scenario.events
         /\ Commit(shutdown_cb(Without(cb), cb.srv, cb.pid, ok),
                   Called(IF ok THEN "shutdown_ok" ELSE "shutdown_err", cb))

ExitReply ==
    /\ ~crashed
    /\ Answers
    /\ \E cb \in BagToSet(pending), ok \in BOOLEAN :
         /\ cb.kind = "exit"
         /\ ok => CanSucceed(cb) /\ "reply_ok" \in scenario.events
         /\ Commit(exit_cb(Without(cb), cb.srv, ok),
                   Called(IF ok THEN "exit_ok" ELSE "exit_err", cb))

\* The server answers the request q, or the call fails.  The client looks
\* the response's id up among its pending requests and runs the callback
\* of the request it finds.  The inputs the callback does not read take one
\* value.
GotoReply ==
    /\ ~crashed
    /\ Answers
    /\ "goto" \in scenario.events
    /\ \E q \in BagToSet(pending), ok \in BOOLEAN, value \in Values,
          target \in Targets :
         /\ q.kind = "goto"
         /\ ok => CanSucceed(q)
         /\ \E e \in {x \in BagToSet(pending) :
                         x.kind = "goto" /\ x.pid = q.pid /\ x.id = q.id} :
              LET r == goto_cb(Without(e), e, ok, value, target)
              IN /\ ok \/ value = "null"
                 /\ ~ok \/ e.doc \in documents \/ value = "location"
                 /\ r.ui.navigated \/ target = "missing"
                 /\ Commit(r, [NoCall EXCEPT
                                 !.op = IF ok THEN "goto_ok" ELSE "goto_err",
                                 !.doc = e.doc, !.srv = e.srv, !.req = e,
                                 !.ready = /\ Ready(World, e.srv)
                                           /\ heap[e.srv].process = e.pid,
                                 !.answered = q, !.value = value])

\* the user closes a document of the editor
DocumentClose ==
    /\ ~crashed
    /\ "close" \in scenario.events
    /\ \E doc \in documents :
         /\ documents' = documents \ {doc}
         /\ last' = [NoCall EXCEPT !.op = "document_close", !.doc = doc]
         /\ UNCHANGED <<cfg, heap, lsp_servers, servers_in_shutdown, procs,
                        pending, open_docs, doc_version_nums, wire, dialogs,
                        last_result, scenario, crashed>>

\* the subprocess ends and g_subprocess_wait_async completes
ProcessStopped ==
    /\ ~crashed
    /\ "exit" \in scenario.events
    /\ \E pid \in Pid, a \in AddrInputs, spawn_ok \in SpawnInputs :
         /\ procs[pid].state \in {"running", "killed"}
         /\ LET r == process_stopped(World, pid, a, spawn_ok)
                s == procs[pid].data
            IN /\ Canon(r, a, spawn_ok)
               /\ Commit(r, [NoCall EXCEPT
                               !.op = "process_stopped", !.srv = s,
                               !.restarts = heap[s].restarts,
                               !.ready = Ready(World, s),
                               !.stopping = BagIn(s, servers_in_shutdown)])

StopAll ==
    /\ ~crashed
    /\ "reinit" \in scenario.events
    /\ ~RegistryNull(World)
    /\ Commit(lsp_server_stop_all(World), [NoCall EXCEPT !.op = "stop_all"])

InitAll ==
    /\ ~crashed
    /\ "reinit" \in scenario.events
    /\ \E a \in AddrInputs, b \in AddrInputs :
         Commit(lsp_server_init_all(World, a, b),
                [NoCall EXCEPT !.op = "init_all"])

\* the host passes the session lsp_server_get returned for the document
DidOpen ==
    /\ ~crashed
    /\ "sync" \in scenario.events
    /\ last.op = "get" /\ last.ret # NULL
    /\ \E contents \in Contents :
         LET r == lsp_sync_text_document_did_open(World, last.ret, last.doc,
                                                  contents)
         IN /\ r.note # NoNote \/ contents = "abc"
            /\ Commit(r, [NoCall EXCEPT !.op = "did_open", !.doc = last.doc,
                                        !.srv = last.ret])

DidClose ==
    /\ ~crashed
    /\ "sync" \in scenario.events
    /\ last.op = "get" /\ last.ret # NULL
    /\ Commit(lsp_sync_text_document_did_close(World, last.ret, last.doc),
              [NoCall EXCEPT !.op = "did_close", !.doc = last.doc,
                             !.srv = last.ret])

DidSave ==
    /\ ~crashed
    /\ "edit" \in scenario.events
    /\ last.op = "get" /\ last.ret # NULL
    /\ \E contents \in Contents :
         Commit(lsp_sync_text_document_did_save(World, last.ret, last.doc,
                                                contents),
                [NoCall EXCEPT !.op = "did_save", !.doc = last.doc,
                               !.srv = last.ret, !.contents = contents])

\* the arguments the mode in use does not read take one value
DidChange ==
    /\ ~crashed
    /\ "edit" \in scenario.events
    /\ last.op = "get" /\ last.ret # NULL
    /\ \E range \in Ranges, text \in Texts, contents \in Contents :
         LET r == lsp_sync_text_document_did_change(
                      World, last.ret, last.doc, range[1], range[2], text,
                      contents)
         IN /\ IF r.note.changes[1].range = NoRange
               THEN range[1] = <<0, 0>> /\ text = ""
               ELSE contents = "abc"
            /\ Commit(r, [NoCall EXCEPT
                            !.op = "did_change", !.doc = last.doc,
                            !.srv = last.ret, !.pos_start = range[1],
                            !.pos_end = range[2], !.text = text,
                            !.contents = contents])

Next ==
    \/ LspServerGet
    \/ LspServerGetIfRunning
    \/ InitializeOk
    \/ InitializeErr
    \/ ShutdownReply
    \/ ExitReply
    \/ ProcessStopped
    \/ StopAll
    \/ InitAll
    \/ DidOpen
    \/ DidClose
    \/ DidSave
    \/ DidChange
    \/ LspGoto
    \/ GotoReply
    \/ DocumentClose

Spec == Init /\ [][Next]_vars

\* The main loop delivers the completion of a shutdown request or an exit
\* notification once the server has answered or the transport has failed.
LiveSpec == Spec /\ WF_vars(ShutdownReply) /\ WF_vars(ExitReply)

\* --------------------------------------------------------------- claims
\* the subprocesses started so far for a language (an ended one included)
Spawned(ft) == {p \in Pid : procs[p].state # "none" /\ procs[p].ft = ft}

\* the session in a language's registry slot is beyond the restart ceiling
Dead(ft) ==
    /\ ~crashed
    /\ lsp_servers[ft] # NULL
    /\ is_dead(heap[lsp_servers[ft]])

\* C1: in the runs where every initialize request fails and nothing else
\* goes wrong, once the session of B is DEAD a further lsp_server_get spawns
\* nothing and B's server was spawned 6 times in all: the first attempt and
\* 5 restarts.
C1_SixSpawnsThenDead ==
    (scenario.name = "init_fails" /\ Dead("B"))
        => /\ Cardinality(Spawned("B")) = RestartCeiling + 1
           /\ \A env \in Envs :
                server_get_for_doc(World, "b1", TRUE, EnvDisabled(env), TRUE,
                                   EnvProject(env), EnvInside(env)).spawned = 0

\* C2: process_stopped for a session that stop_process had put into
\* servers_in_shutdown creates no replacement session, spawns no process and
\* leaves the registry as it was.
C2_ExitAfterStopIsNotACrash ==
    (last.op = "process_stopped" /\ last.stopping)
        => /\ last.newsrv = NULL
           /\ last.spawned = 0
           /\ ~last.regwrite

\* C3: when initialize succeeds on the session that replaced a READY session
\* whose process ended, every document of its language that is changed or
\* current and eligible has had a didOpen written to the replacement, also
\* the documents that were open on the session that died.
C3_ReplayAfterCrash ==
    (/\ last.op = "initialize_ok"
     /\ ~last.crash
     /\ heap[last.srv].alloc = "live"
     /\ heap[last.srv].origin = "ready_exit")
        => last.should \subseteq heap[last.srv].opened

\* C4: a session returned by lsp_server_get or lsp_server_get_if_running has
\* a process and is in neither handshake, for every document, also one whose
\* language resolves through a reference language; nothing is returned while
\* LSP is disabled for the project.
C4_ReturnedSessionIsReady ==
    \A doc \in Docs, launch_server \in BOOLEAN, env \in Envs :
        LET r == server_get_for_doc(World, doc, launch_server,
                                    EnvDisabled(env), TRUE, EnvProject(env),
                                    EnvInside(env))
        IN (~crashed /\ r.ret # NULL)
               => /\ Ready(r, r.ret)
                  /\ ~EnvDisabled(env)

\* C5: in the configuration where A uses B's server, whenever the session in
\* B's registry slot is READY lsp_server_get for a document of A returns
\* that session, and no subprocess belongs to A's own session.
C5_AliasReturnsLiveTarget ==
    (cfg = CfgAlias /\ ~crashed /\ Ready(World, lsp_servers["B"]))
        => /\ \A env \in Envs \ {"disabled"} :
                server_get_for_doc(World, "a1", TRUE, FALSE, TRUE,
                                   EnvProject(env), EnvInside(env)).ret
                    = lsp_servers["B"]
           /\ Spawned("A") = {}

\* C6: a resolution of a document of A returns a session of A or of A's
\* reference language, never one further away; and in the configuration
\* where A names a reference language that does not exist, A is unusable:
\* resolving a document of A returns nothing and spawns nothing, although A
\* has a command of its own.
C6_UnresolvableReferenceIsUnusable ==
    (~crashed /\ last.op \in {"get", "get_if_running"} /\ last.doc = "a1")
        => /\ last.ret # NULL =>
                heap[last.ret].filetype \in {"A", cfg["A"].ref_lang}
           /\ cfg = CfgUnknownRef =>
                last.ret = NULL /\ last.spawned = 0 /\ Spawned("A") = {}

\* C7: once the session in B's registry slot is beyond the restart ceiling,
\* lsp_server_get for B returns nothing, and whatever handler runs next, the
\* slot's session stays beyond the ceiling and no subprocess is started.
C7_DeadIsPermanent ==
    [][Dead("B") =>
         /\ \A env \in Envs :
              server_get_for_doc(World, "b1", TRUE, EnvDisabled(env), TRUE,
                                 EnvProject(env), EnvInside(env)).ret = NULL
         /\ ~crashed' => Dead("B")' /\ Spawned("B")' = Spawned("B")]_vars

\* C8: the "terminated more than 5 times, giving up" message box is shown at
\* most once for a language, and exactly once when the language's session is
\* beyond the restart ceiling.
C8_GivingUpShownOnce ==
    \A ft \in FT :
        /\ dialogs[ft] <= 1
        /\ Dead(ft) => dialogs[ft] = 1

\* C9: when initialize_cb ran with an error, or process_stopped ran for a
\* READY session, the registry slot of the language holds a record allocated
\* by that handler, the handler called start_lsp_server once, and the count
\* of the new record is the old session's count plus one.
C9_FailureReplacesAndRestarts ==
    (\/ last.op = "initialize_err"
     \/ last.op = "process_stopped" /\ last.ready)
        => /\ ~last.crash
           /\ last.newsrv # NULL
           /\ lsp_servers[heap[last.newsrv].filetype] = last.newsrv
           /\ last.attempts = 1
           /\ heap[last.newsrv].restarts = last.restarts + 1

\* C10: in the runs where only spawning fails: a lsp_server_get whose spawn
\* fails leaves B's session without a process, outside the handshake and
\* with no request sent; and whenever B's session has no process after
\* earlier start attempts, however many, the next lsp_server_get for B spawns
\* the server.
C10_SpawnFailureIsRetried ==
    (scenario.name = "spawn_fails" /\ cfg = CfgOnlyB) =>
        LET s == lsp_servers["B"]
            failing == server_get_for_doc(World, "b1", TRUE, FALSE, FALSE,
                                          TRUE, TRUE)
            retry == server_get_for_doc(World, "b1", TRUE, FALSE, TRUE,
                                        TRUE, TRUE)
        IN /\ failing.spawn_failed =>
                /\ failing.heap[s].process = NULL
                /\ ~failing.heap[s].startup_shutdown
                /\ failing.pending = pending
           /\ (heap[s].process = NULL /\ heap[s].restarts >= 1) =>
                retry.spawned = 1

\* C11: an exit notification is sent only by shutdown_cb after a successful
\* shutdown response; a subprocess is force-terminated exactly by the
\* callbacks of a failed shutdown request or a failed exit notification; and
\* the callback that ends the sequence (failed shutdown, or exit either way)
\* finds its session once in servers_in_shutdown and leaves it out of it.
C11_ShutdownSequence ==
    [][/\ \A cb \in BagToSet(pending') :
            (cb.kind = "exit" /\ CopiesIn(cb, pending') > CopiesIn(cb, pending))
                => last'.op = "shutdown_ok" /\ last'.srv = cb.srv
       /\ \A p \in Pid :
            (procs[p].state = "running" /\ procs'[p].state = "killed")
                => last'.op \in {"shutdown_err", "exit_err"}
       /\ last'.op \in {"shutdown_err", "exit_err"} =>
            \/ last'.crash
            \/ heap[last'.srv].process = NULL
            \/ procs'[heap[last'.srv].process].state # "running"
       /\ last'.op \in {"shutdown_err", "exit_ok", "exit_err"} =>
            /\ CopiesIn(last'.srv, servers_in_shutdown) = 1
            /\ CopiesIn(last'.srv, servers_in_shutdown') = 0]_vars

\* C12: every session put into servers_in_shutdown is eventually removed
\* from it, so the loop of lsp_server_stop_all(wait = TRUE), which runs the
\* main loop while servers_in_shutdown is not empty, ends; also when the
\* server never answers the shutdown request.
C12_ShutdownFinishes ==
    \A a \in Addr :
        BagIn(a, servers_in_shutdown) ~> ~BagIn(a, servers_in_shutdown)

\* C13: no handler writes a didOpen or a didClose to a session before the
\* initialized notification of that session, which initialize_cb writes on
\* the initialize response and before the didOpen notifications it replays.
C13_NothingBeforeInitialized ==
    last.op \in {"did_open", "did_close", "did_change", "did_save",
                 "initialize_ok"} => ~last.early

\* C15: a document is recorded as open exactly when some session that has
\* not been torn down was sent a didOpen for it and no didClose since: the
\* record is kept per (session, document) and goes with the session.
C15_OpenRecordPerSession ==
    ~crashed =>
        \A doc \in Docs :
            lsp_sync_is_document_open([open_docs |-> open_docs], doc)
                <=> \E a \in Addr : /\ heap[a].alloc = "live"
                                    /\ doc \in heap[a].opened

\* C14: the didOpen and didClose notifications written to one session for
\* one document alternate, beginning with didOpen: no handler writes a
\* didClose for a document the session has no didOpen for, nor a second
\* didOpen without a didClose in between.
C14_OpenCloseAlternate ==
    last.op \in {"did_open", "did_close", "initialize_ok"} => ~last.misordered

\* C16: a didChange carries a version exactly 1 greater than the version
\* the previous didOpen or didChange of the document carried, and no didOpen
\* or didChange carries a version an earlier one of the same path carried,
\* whatever did_open, did_change, did_close and did_save calls came before.
C16_VersionsAdvance ==
    [][LET n == last'.note
       IN /\ (n.method = "didChange" /\ wire[n.doc].latest # 0)
                => n.version = wire[n.doc].latest + 1
          /\ n.method \in {"didOpen", "didChange"}
                => n.version \notin wire[n.doc].all]_vars

\* a third version handed out by did_change after the document was closed
C16_Witness ==
    /\ last.op = "did_change"
    /\ last.note.version = 3
    /\ wire[last.doc].all = {1, 2, 3}
    /\ last.doc \in heap[last.srv].had
    /\ last.doc \notin open_docs

\* C17: the first didOpen written to a session for a document carries
\* version 1, also when the session replaces one that had the document
\* open: the version counter does not outlive a session.
C17_FirstOpenIsVersionOne ==
    last.first => last.note.version = 1

\* C18: a didChange has exactly one content-change entry and the version
\* get_next_doc_version_num handed out for the call; on a session in
\* incremental mode the entry has the range and the text did_change was
\* called with, on any other it has no range and the whole current text.
C18_ChangeEntry ==
    last.op = "did_change" =>
        LET n == last.note
            e == n.changes[1]
        IN /\ n.method = "didChange"
           /\ DOMAIN n.changes = {1}
           /\ n.version = doc_version_nums[last.doc]
           /\ IF heap[last.srv].use_incremental_sync
              THEN /\ e.range = <<last.pos_start, last.pos_end>>
                   /\ e.text = last.text
              ELSE /\ e.range = NoRange
                   /\ e.text = last.contents

\* an incremental change whose text is not the text of the whole document
C18_WitnessIncremental ==
    /\ last.op = "did_change"
    /\ heap[last.srv].use_incremental_sync
    /\ last.pos_start = <<2, 0>> /\ last.pos_end = <<2, 5>>
    /\ last.text = "abc"
    /\ last.note.version = 2

\* C19: after a successful initialize the session is in incremental mode
\* exactly when the result's textDocumentSync is the number 2 or an object
\* whose change member is 2; 0, 1, an object without change and an absent
\* capability give full-document sync.
C19_IncrementalIffTwo ==
    (last.op = "initialize_ok" /\ ~crashed) =>
        (heap[last.srv].use_incremental_sync
            <=> last.result.textDocumentSync \in
                    {[form |-> "number", val |-> 2],
                     [form |-> "change", val |-> 2]})

\* a server that declares incremental sync in the nested form
C19_WitnessNested ==
    /\ last.op = "initialize_ok"
    /\ last.result.textDocumentSync = [form |-> "change", val |-> 2]
    /\ heap[last.srv].use_incremental_sync

\* the capability a feature's enable flag is tied to is a member of the
\* initialize result and is not false
DeclaredBy(node, f) ==
    CASE f = "autocomplete" -> node.completionProvider # "absent"
      [] f = "signature" -> node.signatureHelpProvider # "absent"
      [] f = "hover" -> node.hoverProvider \in {"true", "object"}
      [] f = "goto" -> node.definitionProvider \in {"true", "object"}
      [] f = "document_symbols" ->
            node.documentSymbolProvider \in {"true", "object"}
      [] f = "highlighting" ->
            node.documentHighlightProvider \in {"true", "object"}
      [] f = "semantic_tokens" -> node.semanticTokensProvider # "absent"

\* C20: after a successful initialize an enable flag of the session is set
\* only if it was set before the response and the server declared the
\* capability the feature needs; no flag goes from false to true.
C20_FlagsOnlyCleared ==
    (last.op = "initialize_ok" /\ ~crashed) =>
        \A f \in Features :
            heap[last.srv].config[f] =>
                last.before[f] /\ DeclaredBy(last.result, f)

\* one flag kept, one cleared for a capability the server denies, one
\* left off as configured although the server has the capability
C20_WitnessKeptAndCleared ==
    /\ last.op = "initialize_ok"
    /\ last.before = SomeOn
    /\ last.result.hoverProvider = "false"
    /\ last.result.definitionProvider = "true"
    /\ heap[last.srv].config.autocomplete
    /\ ~heap[last.srv].config.hover
    /\ ~heap[last.srv].config.goto

\* C21: after a successful initialize the session supports workspace
\* symbols unless the result's workspaceSymbolProvider is the boolean false;
\* it does when the result has no such member.
C21_WorkspaceSymbolsByDefault ==
    (last.op = "initialize_ok" /\ ~crashed) =>
        (heap[last.srv].supports_workspace_symbols
            <=> last.result.workspaceSymbolProvider # "false")

\* C22: did_save writes exactly one notification, a didSave of the document
\* with the text the editor widget holds, whether or not the document is
\* recorded as open, and changes neither open_docs nor doc_version_nums.
C22_SaveAlwaysAndOnly ==
    [][last'.op = "did_save" =>
         /\ ~last'.crash
         /\ last'.sent = 1
         /\ last'.note = [NoNote EXCEPT !.method = "didSave",
                                        !.doc = last'.doc,
                                        !.text = last'.contents]
         /\ open_docs' = open_docs
         /\ doc_version_nums' = doc_version_nums]_vars

\* a save of a document that was opened, changed and closed again
C22_WitnessSaveWhileClosed ==
    /\ last.op = "did_save"
    /\ last.note.method = "didSave"
    /\ last.contents = "xabcx"
    /\ last.doc \notin open_docs
    /\ doc_version_nums[last.doc] = 2

C24_NoSuccessAfterTeardown ==
    last.op = "goto_ok" => last.ready

Serving(ft) ==
    {p \in Pid : /\ procs[p].state = "running"
                 /\ procs[p].ft = ft
                 /\ ~BagIn(procs[p].data, servers_in_shutdown)}

\* C26: at most one subprocess of a language runs outside voluntary
\* shutdown: after an initialize error, the exit of the process, or both for
\* one session in either order, there is one replacement and one new
\* process.
C26_OneProcessPerLanguage ==
    ~crashed => \A ft \in FT : Cardinality(Serving(ft)) <= 1

\* C27: no handler reads, writes or releases a session record that has been
\* released: not process_stopped, initialize_cb, shutdown_cb or exit_cb when
\* they run late, not the resolution through a cached alias, not
\* lsp_server_stop_all or lsp_server_init_all.
C27_NoUseAfterRelease ==
    ~last.uaf

\* the restart count of a language: that of the session in its slot
Restarts(ft) == heap[lsp_servers[ft]].restarts

\* C28: the restart count of a language is cumulative.  In a run without a
\* registry re-initialisation no handler lowers it, a successful initialize
\* leaves it as it was, a start attempt raises it by one whether or not the
\* spawn succeeds, and so at most 5 subprocesses are ever spawned for the
\* language, however its sessions ended.
C28_CumulativeRestartCount ==
    [][(~crashed' /\ "reinit" \notin scenario.events) =>
         \A ft \in FT :
            /\ Restarts(ft)' >= Restarts(ft)
            /\ (last'.op = "initialize_ok" /\ heap[last'.srv].filetype = ft)
                  => Restarts(ft)' = Restarts(ft)
            /\ (last'.op = "get" /\ last'.attempts = 1
                   /\ DocFt(last'.doc) = ft /\ cfg[ft].cmd)
                  => Restarts(ft)' = Restarts(ft) + 1
            /\ Cardinality(Spawned(ft)') <= RestartCeiling]_vars

\* the document may not use the server of its own language: no real path,
\* no project open while lsp_use_without_project is off, or outside the
\* project directory while lsp_use_outside_project_dir is off
Ineligible(doc, env) ==
    /\ cfg[DocFt(doc)].cmd
    /\ ~is_lsp_valid_for_doc(cfg[DocFt(doc)], doc, EnvProject(env),
                             EnvInside(env))

\* C29: lsp_server_get for an ineligible document returns no session and
\* changes nothing: no start attempt, no subprocess, no request, no session
\* record written.
C29_IneligibleGetIsInert ==
    \A doc \in Docs, env \in Envs \ {"disabled"}, spawn_ok \in BOOLEAN :
        LET r == server_get_for_doc(World, doc, TRUE, FALSE, spawn_ok,
                                    EnvProject(env), EnvInside(env))
        IN (~crashed /\ Ineligible(doc, env))
               => /\ r.ret = NULL
                  /\ r.attempts = 0
                  /\ r.spawned = 0
                  /\ r.heap = heap
                  /\ r.procs = procs
                  /\ r.pending = pending

\* C30: a goto callback that runs with a result after the document of its
\* request has left the editor's documents navigates nowhere, writes
\* nothing to the message window and shows no panel; it acts on the result
\* only while the document is among the editor's documents.
C30_ClosedDocumentIgnored ==
    [][(last'.op = "goto_ok" /\ last'.req.doc \notin documents) =>
         /\ last'.ui = NoUi
         /\ documents' = documents
         /\ last_result' = last_result]_vars

\* a location arrives for a request whose document has been closed
C30_WitnessLateLocation ==
    /\ last.op = "goto_ok"
    /\ last.value = "location"
    /\ ~last.req.show
    /\ last.req.doc \notin documents
    /\ last.ui = NoUi

====
